---- MODULE Spec2Model ----
(***************************************************************************)
(* Model of the react-native local-cli fragment:                           *)
(*   - the project initializer  (init, generateProject,                   *)
(*     addJestToPackageJson)                                               *)
(*   - the Metro configuration loader (loadMetroConfig.js: load)          *)
(*                                                                         *)
(* JavaScript values are tagged records, so that undefined, numbers,       *)
(* strings, booleans and arrays can be told apart and ToBoolean can be     *)
(* computed as the language computes it.                                   *)
(***************************************************************************)
EXTENDS Integers, Sequences, FiniteSets, TLC

VARIABLES
    \* ---- project initializer ----
    argsOrName,       \* second parameter of init
    argvRest,         \* process.argv.slice(4)
    rnPackageJson,    \* react-native/package.json as required by generateProject
    templateManifest, \* the package.json text the template materialises
    pc,               \* position of the initializer
    log,              \* logger calls so far, in order
    started,          \* side-effecting steps entered, in order
    completed,        \* side-effecting steps that returned normally, in order
    options,          \* minimist(args)
    newProjectName,   \* args[0]
    packageManager,   \* the PackageManager handle (Undef before construction)
    installed,        \* specifiers handed to install / installDev
    destFile,         \* <destinationRoot>/package.json (Undef while absent)
    applied,          \* successful applications of addJestToPackageJson
    patchThrew,       \* the last addJestToPackageJson call threw
    \* ---- metro config loader ----
    env,              \* process.env
    loadOptions,      \* parameter of load
    projectConfig,    \* what the project's metro config file sets
    plugins,          \* result of findPlugins
    symlinks,         \* result of findSymlinkedModules for the app root
    lpc,              \* position of load: before the await, after it, returned
    defaults,         \* getDefaultConfig() as handed to loadConfig
    loaded,           \* the configuration loadConfig resolved to
    config            \* the configuration load returns

ivars == <<argsOrName, argvRest, rnPackageJson, templateManifest, pc, log,
           started, completed, options, newProjectName, packageManager,
           installed>>
pvars == <<destFile, applied, patchThrew>>
lvars == <<env, loadOptions, projectConfig, plugins, symlinks, lpc, defaults,
           loaded, config>>
vars == <<ivars, pvars, lvars>>

----------------------------------------------------------------------------
(* Bounds of the model *)
MaxArgs == 2
MaxArgvRest == 1
MaxMembers == 2
MaxScripts == 2
MaxSymlinks == 1
MaxApplications == 2

----------------------------------------------------------------------------
(* JavaScript values *)
Undef == [t |-> "undef"]
Str(s) == [t |-> "str", v |-> s]
Num(n) == [t |-> "num", v |-> n]
Bool(b) == [t |-> "bool", v |-> b]
\* an array object: id is its identity, v its elements
Arr(i, s) == [t |-> "arr", id |-> i, v |-> s]
\* a plain object holding string-valued members, in insertion order
Obj(m) == [t |-> "obj", v |-> m]

\* ToBoolean
Truthy(x) ==
    CASE x.t = "undef" -> FALSE
      [] x.t = "str" -> x.v /= ""
      [] x.t = "num" -> x.v /= 0
      [] x.t = "bool" -> x.v
      [] OTHER -> TRUE

\* a || b
Or(a, b) == IF Truthy(a) THEN a ELSE b

\* sequences over S of length at most n
BSeq(S, n) == UNION {[1..k -> S] : k \in 0..n}

IsPrefix(s, t) == Len(s) <= Len(t) /\ \A i \in 1..Len(s) : s[i] = t[i]

RECURSIVE CountOf(_, _)
CountOf(s, x) ==
    IF s = <<>> THEN 0
    ELSE (IF Head(s) = x THEN 1 ELSE 0) + CountOf(Tail(s), x)

----------------------------------------------------------------------------
(* JSON text and objects.  A text is its formatting plus its members in     *)
(* written order (a text may repeat a key); an object holds each key once,  *)
(* in insertion order.                                                     *)

HasKey(obj, k) == \E i \in 1..Len(obj) : obj[i][1] = k

Get(obj, k) ==
    IF HasKey(obj, k)
    THEN obj[CHOOSE i \in 1..Len(obj) : obj[i][1] = k][2]
    ELSE Undef

\* obj[k] = v appended even when k is already a key
SetPropAppend(obj, k, v) == Append(obj, <<k, v>>)

\* obj[k] = v: an existing key keeps its place, a new key goes last
SetProp(obj, k, v) ==
    IF HasKey(obj, k)
    THEN [i \in 1..Len(obj) |-> IF obj[i][1] = k THEN <<k, v>> ELSE obj[i]]
    ELSE Append(obj, <<k, v>>)

RECURSIVE BuildObject(_, _)
BuildObject(members, acc) ==
    IF members = <<>> THEN acc
    ELSE BuildObject(Tail(members), SetProp(acc, Head(members)[1], Head(members)[2]))

ParseValue(x) == IF x.t = "obj" THEN Obj(BuildObject(x.v, <<>>)) ELSE x

\* JSON.parse(text)
JSONparse(text) ==
    BuildObject([i \in 1..Len(text.doc) |->
                    <<text.doc[i][1], ParseValue(text.doc[i][2])>>], <<>>)

\* `${JSON.stringify(obj, null, 2)}\n`
JSONstringify2(obj) == [t |-> "text", indent |-> 2, nl |-> TRUE, doc |-> obj]

----------------------------------------------------------------------------
(* addJestToPackageJson *)

JestBlock == Obj(<< <<"preset", "react-native">> >>)

\* readFileSync and JSON.parse succeed and packageJSON.scripts is an object,
\* so that the assignment packageJSON.scripts.test = 'jest' does not throw
CanPatch(file) ==
    /\ file.t = "text"
    /\ Get(JSONparse(file), "scripts").t = "obj"

\* packageJSON after the two assignments
PatchObject(packageJSON) ==
    LET scripts == Get(packageJSON, "scripts")
        withTest == SetProp(packageJSON, "scripts",
                            Obj(SetProp(scripts.v, "test", "jest")))
    IN  SetProp(withTest, "jest", JestBlock)

\* the text written back
PatchedText(file) == JSONstringify2(PatchObject(JSONparse(file)))

----------------------------------------------------------------------------
(* minimist, for the tokens the initializer is given *)

Tokens == {"AwesomeApp", "navigation", "--npm", "--template"}
IsFlag(x) == x.t = "str" /\ x.v \in {"--npm", "--template"}
FlagKey(x) == IF x.v = "--npm" THEN "npm" ELSE "template"

\* minimist's setKey: a repeated non-boolean key collects its values
SetKey(o, key, val) ==
    LET old == o[key]
    IN  IF old.t \in {"undef", "bool"} THEN [o EXCEPT ![key] = val]
        ELSE IF old.t = "arr"
             THEN [o EXCEPT ![key] = Arr(0, Append(old.v, val))]
             ELSE [o EXCEPT ![key] = Arr(0, <<old, val>>)]

RECURSIVE MinimistFrom(_, _, _)
MinimistFrom(args, i, o) ==
    IF i > Len(args) THEN o
    ELSE IF IsFlag(args[i])
         THEN IF i < Len(args) /\ args[i + 1].t /= "undef" /\ ~IsFlag(args[i + 1])
              THEN MinimistFrom(args, i + 2, SetKey(o, FlagKey(args[i]), args[i + 1]))
              ELSE MinimistFrom(args, i + 1, SetKey(o, FlagKey(args[i]), Bool(TRUE)))
         ELSE MinimistFrom(args, i + 1, [o EXCEPT !.positional = Append(@, args[i])])

minimist(args) ==
    MinimistFrom(args, 1, [positional |-> <<>>, npm |-> Undef, template |-> Undef])

----------------------------------------------------------------------------
(* init *)

\* args as init computes it
ArgsOf(a, rest) == IF a.t = "arr" THEN a.v ELSE <<a>> \o rest

\* !args || args.length === 0   (an array is never falsy)
NoArgs(args) == Len(args) = 0

InitCall ==
    /\ pc = "init"
    /\ LET args == ArgsOf(argsOrName, argvRest)
       IN  IF NoArgs(args)
           THEN /\ log' = Append(log, "error")
                /\ pc' = "done"
                /\ UNCHANGED <<options, newProjectName>>
           ELSE /\ newProjectName' = args[1]
                /\ options' = minimist(args)
                /\ log' = Append(log, "info")
                /\ pc' = "generate"
    /\ UNCHANGED <<argsOrName, argvRest, rnPackageJson, templateManifest,
                   started, completed, packageManager, installed>>
    /\ UNCHANGED <<pvars, lvars>>

----------------------------------------------------------------------------
(* generateProject *)

\* a mutant: only the peerDependencies section is looked at
PeerMissingSectionOnly(manifest) == ~Truthy(manifest.peerDependencies)

\* !peerDependencies, or !peerDependencies.react
PeerMissing(manifest) ==
    \/ ~Truthy(manifest.peerDependencies)
    \/ ~Truthy(manifest.peerDependencies.react)

Order == <<"createProjectFromTemplate", "install", "installDev",
           "addJestToPackageJson", "printRunInstructions">>

\* a mutant: the two install calls in the other order
NextStepInstallDevFirst(step) ==
    CASE step = "createProjectFromTemplate" -> "installDev"
      [] step = "installDev" -> "install"
      [] step = "install" -> "addJestToPackageJson"
      [] step = "addJestToPackageJson" -> "printRunInstructions"
      [] OTHER -> "done"

\* the statement that follows a call that returned
NextStep(step) ==
    CASE step = "createProjectFromTemplate" -> "install"
      [] step = "install" -> "installDev"
      [] step = "installDev" -> "addJestToPackageJson"
      [] step = "addJestToPackageJson" -> "printRunInstructions"
      [] OTHER -> "done"

\* lines 53-73: the peer dependency check and the PackageManager handle
GenerateProject ==
    /\ pc = "generate"
    /\ IF PeerMissing(rnPackageJson)
       THEN /\ log' = Append(log, "error")
            /\ pc' = "done"
            /\ UNCHANGED packageManager
       ELSE /\ packageManager' = [t |-> "obj", forceNpm |-> options.npm]
            /\ pc' = "createProjectFromTemplate"
            /\ UNCHANGED log
    /\ UNCHANGED <<argsOrName, argvRest, rnPackageJson, templateManifest,
                   started, completed, options, newProjectName, installed>>
    /\ UNCHANGED <<pvars, lvars>>

\* a call that throws: nothing after it runs
Throws(step) ==
    /\ pc = step
    /\ started' = Append(started, step)
    /\ pc' = "threw"
    /\ UNCHANGED <<argsOrName, argvRest, rnPackageJson, templateManifest,
                   completed, options, newProjectName, packageManager, installed>>
    /\ UNCHANGED lvars

Returns(step) ==
    /\ pc = step
    /\ started' = Append(started, step)
    /\ completed' = Append(completed, step)
    /\ pc' = NextStep(step)
    /\ UNCHANGED <<argsOrName, argvRest, rnPackageJson, templateManifest,
                   options, newProjectName, packageManager>>
    /\ UNCHANGED lvars

CreateProjectFromTemplate ==
    \/ /\ Returns("createProjectFromTemplate")
       /\ destFile' = templateManifest
       /\ UNCHANGED <<log, installed, applied, patchThrew>>
    \/ /\ Throws("createProjectFromTemplate")
       /\ UNCHANGED <<log, pvars>>

ReactVersion == rnPackageJson.peerDependencies.react.v

Install ==
    \/ /\ Returns("install")
       /\ log' = Append(log, "info")
       /\ installed' = Append(installed, <<"install", << <<"react", ReactVersion>> >> >>)
       /\ UNCHANGED pvars
    \/ /\ Throws("install")
       /\ log' = Append(log, "info")
       /\ UNCHANGED pvars

DevDependencies ==
    << <<"@babel/core", "">>, <<"@babel/runtime", "">>, <<"jest", "">>,
       <<"babel-jest", "">>, <<"metro-react-native-babel-preset", "">>,
       <<"react-test-renderer", ReactVersion>> >>

InstallDev ==
    \/ /\ Returns("installDev")
       /\ log' = Append(log, "info")
       /\ installed' = Append(installed, <<"installDev", DevDependencies>>)
       /\ UNCHANGED pvars
    \/ /\ Throws("installDev")
       /\ log' = Append(log, "info")
       /\ UNCHANGED pvars

AddJestToPackageJson ==
    \/ /\ CanPatch(destFile)
       /\ Returns("addJestToPackageJson")
       /\ destFile' = PatchedText(destFile)
       /\ applied' = applied + 1
       /\ patchThrew' = FALSE
       /\ UNCHANGED <<log, installed>>
    \/ /\ ~CanPatch(destFile)
       /\ Throws("addJestToPackageJson")
       /\ patchThrew' = TRUE
       /\ UNCHANGED <<log, destFile, applied>>
    \/ \* readFileSync or writeFileSync fails
       /\ Throws("addJestToPackageJson")
       /\ patchThrew' = TRUE
       /\ UNCHANGED <<log, destFile, applied>>

PrintRunInstructions ==
    \/ /\ Returns("printRunInstructions")
       /\ UNCHANGED <<log, installed>>
       /\ UNCHANGED pvars
    \/ /\ Throws("printRunInstructions")
       /\ UNCHANGED <<log, pvars>>

----------------------------------------------------------------------------
(* Inputs of the initializer *)

StrTokens == {Str(x) : x \in Tokens}

ArgsOrNames ==
    {Undef, Str("AwesomeApp")} \cup {Arr(0, s) : s \in BSeq(StrTokens, MaxArgs)}

RnPackageJsons ==
    {[peerDependencies |-> Undef],
     [peerDependencies |-> [t |-> "obj", react |-> Undef]],
     [peerDependencies |-> [t |-> "obj", react |-> Str("16.6.3")]]}

ScriptMembers == {<<"test", "jest">>, <<"test", "mocha">>, <<"start", "node">>}

TopMembers ==
    {<<"name", Str("App")>>,
     <<"jest", JestBlock>>,
     <<"jest", Obj(<< <<"preset", "other">> >>)>>}
    \cup {<<"scripts", Obj(s)>> : s \in BSeq(ScriptMembers, MaxScripts)}

Formats == {<<2, TRUE>>, <<4, FALSE>>}

ManifestTexts ==
    {[t |-> "text", indent |-> f[1], nl |-> f[2], doc |-> d] :
        f \in Formats, d \in BSeq(TopMembers, MaxMembers)}

\* what a template may leave at <destinationRoot>/package.json
TemplateManifests ==
    {Undef,
     [t |-> "text", indent |-> 2, nl |-> TRUE,
      doc |-> << <<"name", Str("App")>> >>],
     [t |-> "text", indent |-> 2, nl |-> TRUE,
      doc |-> << <<"name", Str("App")>>,
                 <<"scripts", Obj(<< <<"start", "node">> >>)>> >>],
     [t |-> "text", indent |-> 4, nl |-> FALSE,
      doc |-> << <<"scripts", Obj(<< <<"test", "mocha">> >>)>>,
                 <<"jest", Obj(<< <<"preset", "other">> >>)>> >>]}

LoaderIdle ==
    /\ env = Undef /\ loadOptions = Undef /\ projectConfig = Undef
    /\ plugins = Undef /\ symlinks = Undef /\ lpc = "idle"
    /\ defaults = Undef /\ loaded = Undef /\ config = Undef

InitializerIdle ==
    /\ argsOrName = Undef /\ argvRest = <<>> /\ rnPackageJson = Undef
    /\ templateManifest = Undef /\ pc = "idle" /\ log = <<>>
    /\ started = <<>> /\ completed = <<>> /\ options = Undef
    /\ newProjectName = Undef /\ packageManager = Undef /\ installed = <<>>

InitInit ==
    /\ argsOrName \in ArgsOrNames
    /\ argvRest \in BSeq(StrTokens, MaxArgvRest)
    /\ rnPackageJson \in RnPackageJsons
    /\ templateManifest \in TemplateManifests
    /\ pc = "init"
    /\ log = <<>> /\ started = <<>> /\ completed = <<>>
    /\ options = Undef /\ newProjectName = Undef
    /\ packageManager = Undef /\ installed = <<>>
    /\ destFile = Undef /\ applied = 0 /\ patchThrew = FALSE
    /\ LoaderIdle

InitNext ==
    \/ InitCall
    \/ GenerateProject
    \/ CreateProjectFromTemplate
    \/ Install
    \/ InstallDev
    \/ AddJestToPackageJson
    \/ PrintRunInstructions

SpecInit == InitInit /\ [][InitNext]_vars

----------------------------------------------------------------------------
(* The manifest patcher on its own: addJestToPackageJson applied again and  *)
(* again to the same package.json                                          *)

PatchInit ==
    /\ destFile \in ManifestTexts
    /\ applied = 0
    /\ patchThrew = FALSE
    /\ InitializerIdle
    /\ LoaderIdle

PatchApply ==
    /\ applied < MaxApplications
    /\ ~patchThrew
    /\ \/ /\ CanPatch(destFile)
          /\ destFile' = PatchedText(destFile)
          /\ applied' = applied + 1
          /\ UNCHANGED patchThrew
       \/ /\ ~CanPatch(destFile)
          /\ patchThrew' = TRUE
          /\ UNCHANGED <<destFile, applied>>
    /\ UNCHANGED <<ivars, lvars>>

PatchNext == PatchApply

SpecPatch == PatchInit /\ [][PatchNext]_vars

----------------------------------------------------------------------------
(* loadMetroConfig.js *)

DefaultPort == 8081

\* path.resolve, for the roots of the model ("/cwd" is process.cwd())
PathResolve(p) ==
    CASE p = "app" -> "/cwd/app"
      [] p = "/repo/app/" -> "/repo/app"
      [] OTHER -> p

\* findSymlinkedModules(rootPath, roots): the symlink targets found under the root
findSymlinkedModules(rootPath, roots) == symlinks

RECURSIVE ReduceRoots(_, _, _)
ReduceRoots(roots, i, arr) ==
    IF i > Len(roots) THEN arr
    ELSE ReduceRoots(roots, i + 1, arr \o findSymlinkedModules(roots[i], roots))

\* a mutant: the roots alone, symlink targets dropped
resolveSymlinksForRootsNoLinks(roots) == roots

resolveSymlinksForRoots(roots) == ReduceRoots(roots, 1, roots)

getWatchFolders(e) ==
    IF Truthy(e.REACT_NATIVE_APP_ROOT)
    THEN resolveSymlinksForRoots(<<PathResolve(e.REACT_NATIVE_APP_ROOT.v)>>)
    ELSE <<>>

\* a mutant: the environment variable is not read
DefaultServerPortFixed(e) == Num(DefaultPort)

\* process.env.RCT_METRO_PORT || 8081
DefaultServerPort(e) == Or(e.RCT_METRO_PORT, Num(DefaultPort))

getDefaultConfig(e) ==
    [resolver |-> [resolverMainFields |-> <<"react-native", "browser", "main">>,
                   blacklistRE |-> "/.*\\/__fixtures__\\/.*/"],
     server |-> [port |-> DefaultServerPort(e)],
     transformer |-> [babelTransformerPath |-> "metro/src/reactNativeTransformer"],
     watchFolders |-> Arr(10, getWatchFolders(e))]

\* what metro-config itself starts from
MetroDefaults ==
    [hasteImplModulePath |-> Undef,
     platforms |-> <<"ios", "android">>,
     providesModuleNodeModules |-> <<>>,
     sourceExts |-> Arr(11, <<"js", "json">>),
     port |-> Num(8080),
     assetRegistryPath |-> Str("missing-asset-registry-path"),
     reporter |-> Str("TerminalReporter"),
     resetCache |-> Bool(FALSE),
     maxWorkers |-> Num(3)]

\* a later layer's field wins when it is set
Layer(upper, lower) == IF upper.t /= "undef" THEN upper ELSE lower

\* loadConfig(argv, defaults): metro's own defaults, then the defaults handed
\* in, then the project's configuration file
loadConfig(dflt, project) ==
    [resolver |->
        [resolverMainFields |-> dflt.resolver.resolverMainFields,
         blacklistRE |-> dflt.resolver.blacklistRE,
         hasteImplModulePath |->
            Layer(project.hasteImplModulePath, MetroDefaults.hasteImplModulePath),
         platforms |-> MetroDefaults.platforms,
         providesModuleNodeModules |-> MetroDefaults.providesModuleNodeModules,
         sourceExts |-> Layer(project.sourceExts, MetroDefaults.sourceExts)],
     server |-> [port |-> Layer(project.port, dflt.server.port)],
     transformer |->
        [babelTransformerPath |-> dflt.transformer.babelTransformerPath,
         assetRegistryPath |-> MetroDefaults.assetRegistryPath],
     watchFolders |-> Layer(project.watchFolders, dflt.watchFolders),
     reporter |-> Layer(project.reporter, MetroDefaults.reporter),
     resetCache |-> Layer(project.resetCache, MetroDefaults.resetCache),
     maxWorkers |-> Layer(project.maxWorkers, MetroDefaults.maxWorkers)]

BuiltinHasteImpl == Str("react-native/jest/hasteImpl")

\* a mutant: the built-in path is always written
HasteImplAlwaysBuiltin(current) == BuiltinHasteImpl

\* config.resolver.hasteImplModulePath || require.resolve('react-native/jest/hasteImpl')
HasteImplModulePath(current) == Or(current, BuiltinHasteImpl)

\* if (options.f) { config.f = options.f }
Override(opt, current) == IF Truthy(opt) THEN opt ELSE current

\* options.sourceExts !== config.resolver.sourceExts is false
SameObject(a, b) == a.t = "arr" /\ b.t = "arr" /\ a.id = b.id

\* a mutant: the caller's list goes last
MergeSourceExtsConfigFirst(opt, current) ==
    IF Truthy(opt) /\ ~SameObject(opt, current)
    THEN Arr(12, current.v \o opt.v)
    ELSE current

\* lines 138-145; concat makes a new array
MergeSourceExts(opt, current) ==
    IF Truthy(opt) /\ ~SameObject(opt, current)
    THEN Arr(12, opt.v \o current.v)
    ELSE current

\* lines 107-147 of load
ApplyOptions(cfg, opts, plg) ==
    [resolver |->
        [resolverMainFields |-> cfg.resolver.resolverMainFields,
         blacklistRE |-> cfg.resolver.blacklistRE,
         hasteImplModulePath |-> HasteImplModulePath(cfg.resolver.hasteImplModulePath),
         platforms |-> cfg.resolver.platforms \o plg.haste.platforms,
         providesModuleNodeModules |->
            cfg.resolver.providesModuleNodeModules \o plg.haste.providesModuleNodeModules,
         sourceExts |-> MergeSourceExts(opts.sourceExts, cfg.resolver.sourceExts)],
     server |-> [port |-> Override(opts.port, cfg.server.port)],
     transformer |->
        [babelTransformerPath |-> cfg.transformer.babelTransformerPath,
         assetRegistryPath |-> Str("react-native/Libraries/Image/AssetRegistry")],
     watchFolders |-> Override(opts.watchFolders, cfg.watchFolders),
     reporter |-> Override(opts.reporter, cfg.reporter),
     resetCache |-> Override(opts.resetCache, cfg.resetCache),
     maxWorkers |-> Override(opts.maxWorkers, cfg.maxWorkers)]

\* load up to its await: findPlugins, getDefaultConfig, the call of loadConfig
LoadCall ==
    /\ lpc = "start"
    /\ defaults' = getDefaultConfig(env)
    /\ lpc' = "awaitLoadConfig"
    /\ UNCHANGED <<env, loadOptions, projectConfig, plugins, symlinks, loaded, config>>
    /\ UNCHANGED <<ivars, pvars>>

\* the promise of loadConfig settles
LoadConfigSettles ==
    /\ lpc = "awaitLoadConfig"
    /\ \/ /\ loaded' = loadConfig(defaults, projectConfig)
          /\ lpc' = "resumed"
       \/ /\ lpc' = "rejected"
          /\ UNCHANGED loaded
    /\ UNCHANGED <<env, loadOptions, projectConfig, plugins, symlinks, defaults, config>>
    /\ UNCHANGED <<ivars, pvars>>

\* the rest of load, after the await
LoadReturn ==
    /\ lpc = "resumed"
    /\ config' = ApplyOptions(loaded, loadOptions, plugins)
    /\ lpc' = "returned"
    /\ UNCHANGED <<env, loadOptions, projectConfig, plugins, symlinks, defaults, loaded>>
    /\ UNCHANGED <<ivars, pvars>>

Envs ==
    [REACT_NATIVE_APP_ROOT : {Undef, Str(""), Str("app"), Str("/repo/app/")},
     RCT_METRO_PORT : {Undef, Str(""), Str("9090")}]

\* an array the project's configuration file and the caller may both hold
SharedExts == Arr(1, <<"js", "json">>)

LoadOptions ==
    [maxWorkers : {Undef, Num(0), Num(4)},
     port : {Undef, Num(0), Num(8088)},
     reporter : {Undef, Str("JsonReporter")},
     resetCache : {Undef, Bool(FALSE), Bool(TRUE)},
     watchFolders : {Undef, Arr(20, <<"/w">>)},
     sourceExts : {Undef, SharedExts, Arr(2, <<"jsx">>)}]

NoProjectConfig ==
    [hasteImplModulePath |-> Undef, sourceExts |-> Undef, port |-> Undef,
     watchFolders |-> Undef, reporter |-> Undef, resetCache |-> Undef,
     maxWorkers |-> Undef]

ProjectConfigs ==
    {NoProjectConfig,
     [NoProjectConfig EXCEPT !.port = Num(9000)],
     [NoProjectConfig EXCEPT !.watchFolders = Arr(21, <<"/proj/shared">>)],
     [NoProjectConfig EXCEPT !.hasteImplModulePath = Str("./myHasteImpl.js")],
     [NoProjectConfig EXCEPT !.hasteImplModulePath = Str("")],
     [NoProjectConfig EXCEPT !.sourceExts = SharedExts],
     [hasteImplModulePath |-> Str("./myHasteImpl.js"), sourceExts |-> SharedExts,
      port |-> Num(9000), watchFolders |-> Arr(21, <<"/proj/shared">>),
      reporter |-> Str("FileReporter"), resetCache |-> Bool(TRUE),
      maxWorkers |-> Num(2)]}

Plugins ==
    {[haste |-> [platforms |-> <<>>, providesModuleNodeModules |-> <<>>]],
     [haste |-> [platforms |-> <<"windows">>,
                 providesModuleNodeModules |-> <<"react-native-windows">>]]}

SymlinkTargets == {"/repo/lib", "/repo/ui"}

LoadInit ==
    /\ env \in Envs
    /\ loadOptions \in LoadOptions
    /\ projectConfig \in ProjectConfigs
    /\ plugins \in Plugins
    /\ symlinks \in BSeq(SymlinkTargets, MaxSymlinks)
    /\ lpc = "start"
    /\ defaults = Undef /\ loaded = Undef /\ config = Undef
    /\ destFile = Undef /\ applied = 0 /\ patchThrew = FALSE
    /\ InitializerIdle

LoadNext == LoadCall \/ LoadConfigSettles \/ LoadReturn

SpecLoad == LoadInit /\ [][LoadNext]_vars

----------------------------------------------------------------------------
(* Properties of the initializer, under SpecInit *)

Errors == CountOf(log, "error")

\* init was given an empty argument list, or no second argument at all
NoNameSupplied ==
    \/ argsOrName.t = "undef"
    \/ argsOrName.t = "arr" /\ argsOrName.v = <<>>

NoSideEffects ==
    /\ started = <<>>
    /\ installed = <<>>
    /\ destFile.t = "undef"

\* C1: when init is called with an empty argument list or with undefined, it
\* performs no side effect at any time and ends having logged exactly one error.
C1_NoNameOneErrorNoEffects ==
    NoNameSupplied =>
        /\ NoSideEffects
        /\ pc /= "threw"
        /\ (pc = "done" => Errors = 1)

\* react-native/package.json has no peerDependencies, or no peerDependencies.react
ManifestLacksReact ==
    \/ rnPackageJson.peerDependencies.t = "undef"
    \/ rnPackageJson.peerDependencies.react.t = "undef"

\* generateProject has been entered and has moved past its checks
PastPeerCheck == pc \notin {"init", "generate"} /\ log /= <<>> /\ log[1] = "info"

\* C4: when the peer manifest lacks the react peer dependency, generateProject
\* logs one error and returns: no PackageManager is made, no step is entered,
\* nothing is installed or written, and nothing is thrown.
C4_MissingPeerAborts ==
    (ManifestLacksReact /\ PastPeerCheck) =>
        /\ pc = "done"
        /\ log = <<"info", "error">>
        /\ packageManager.t = "undef"
        /\ NoSideEffects
        /\ applied = 0 /\ ~patchThrew

C4_Witness ==
    /\ ManifestLacksReact
    /\ pc = "done"
    /\ log = <<"info", "error">>

\* C5: the side-effecting steps are entered at most once each and in the fixed
\* order; a step is entered only when every earlier one has returned; after a
\* step throws nothing further runs; install is given react@<version> and
\* installDev the development list.
C5_StepsInOrder ==
    /\ IsPrefix(started, Order)
    /\ IsPrefix(completed, started)
    /\ (pc = "threw" => Len(started) = Len(completed) + 1)
    /\ (pc = "threw" => ~ENABLED InitNext)
    /\ (pc /= "threw" => started = completed)
    /\ (pc \in {Order[i] : i \in 1..Len(Order)} => pc = Order[Len(completed) + 1])
    /\ Len(installed) <= 2
    /\ (Len(installed) >= 1 =>
            /\ installed[1] = <<"install", << <<"react", ReactVersion>> >> >>
            /\ Len(completed) >= 2)
    /\ (Len(installed) = 2 =>
            /\ installed[2] = <<"installDev", DevDependencies>>
            /\ Len(completed) >= 3)
    /\ (applied > 0 => Len(completed) >= 4)

C5_Witness ==
    /\ pc = "done"
    /\ completed = Order
    /\ Len(installed) = 2

----------------------------------------------------------------------------
(* Properties of the manifest patcher, under SpecPatch *)

\* C6: applying addJestToPackageJson to a package.json it has already patched
\* leaves the file content exactly as it was.
C6_PatchIdempotent ==
    [][(applied >= 1 /\ applied' = applied + 1) => destFile' = destFile]_vars

C6_Witness ==
    /\ applied = 2
    /\ Get(JSONparse(destFile), "jest") = JestBlock

\* C7: the patch never fails, also on a manifest without `scripts`, and
\* leaves scripts.test = 'jest' and jest = {preset: 'react-native'}.
C7_PatchAlwaysSucceeds ==
    /\ ~patchThrew
    /\ (applied >= 1 =>
            /\ Get(Get(JSONparse(destFile), "scripts").v, "test") = "jest"
            /\ Get(JSONparse(destFile), "jest") = JestBlock)

----------------------------------------------------------------------------
(* Properties of load, under SpecLoad *)

Returned == lpc = "returned"

Supplied(x) == x.t /= "undef"

\* C2: every one of maxWorkers, port, reporter, resetCache, watchFolders that
\* the caller supplies (not undefined, falsy values included) is the value of
\* the returned configuration's field.
C2_SuppliedOptionsWin ==
    Returned =>
        /\ (Supplied(loadOptions.maxWorkers) => config.maxWorkers = loadOptions.maxWorkers)
        /\ (Supplied(loadOptions.port) => config.server.port = loadOptions.port)
        /\ (Supplied(loadOptions.reporter) => config.reporter = loadOptions.reporter)
        /\ (Supplied(loadOptions.resetCache) => config.resetCache = loadOptions.resetCache)
        /\ (Supplied(loadOptions.watchFolders) =>
                config.watchFolders = loadOptions.watchFolders)

\* C3: a supplied options.sourceExts that is not the loaded list itself is put
\* in front of the loaded list; otherwise the loaded list is returned as it is.
C3_SourceExtsCallerFirst ==
    Returned =>
        IF /\ Supplied(loadOptions.sourceExts)
           /\ loadOptions.sourceExts.id /= loaded.resolver.sourceExts.id
        THEN config.resolver.sourceExts.v =
                loadOptions.sourceExts.v \o loaded.resolver.sourceExts.v
        ELSE config.resolver.sourceExts = loaded.resolver.sourceExts

C3_Witness ==
    /\ Returned
    /\ loadOptions.sourceExts.t = "arr"
    /\ loadOptions.sourceExts.v = <<"jsx">>
    /\ loaded.resolver.sourceExts.v = <<"js", "json">>
    /\ config.resolver.sourceExts.v = <<"jsx", "js", "json">>

\* C8: a hasteImplModulePath that the project configuration sets (a non-empty
\* path) is returned unchanged; the built-in path is returned when the project
\* left it unset (or empty).
C8_HasteImplKept ==
    Returned =>
        IF Truthy(projectConfig.hasteImplModulePath)
        THEN config.resolver.hasteImplModulePath = projectConfig.hasteImplModulePath
        ELSE config.resolver.hasteImplModulePath = BuiltinHasteImpl

C8_Witness ==
    /\ Returned
    /\ projectConfig.hasteImplModulePath = Str("./myHasteImpl.js")
    /\ config.resolver.hasteImplModulePath = Str("./myHasteImpl.js")

Range(q) == {q[i] : i \in 1..Len(q)}

AppRootSet == Truthy(env.REACT_NATIVE_APP_ROOT)

\* the resolved app root and every symlink target found under it
AppRootFolders ==
    {IF env.REACT_NATIVE_APP_ROOT.v = "app" THEN "/cwd/app" ELSE "/repo/app"}
        \cup Range(symlinks)

\* C9 as stated: with REACT_NATIVE_APP_ROOT set, the returned watchFolders
\* contains the app root and every symlink target.
C9_ReturnedHasAppRoot ==
    (Returned /\ AppRootSet) => AppRootFolders \subseteq Range(config.watchFolders.v)

\* C9 amended: with REACT_NATIVE_APP_ROOT set, the default layer's watchFolders
\* contains the app root and every symlink target, and so does the returned
\* configuration when neither the project configuration nor the caller gives
\* watchFolders; with the variable unset the default layer's list is empty.
C9_DefaultLayerHasAppRoot ==
    Returned =>
        /\ (AppRootSet => AppRootFolders \subseteq Range(defaults.watchFolders.v))
        /\ (~AppRootSet => defaults.watchFolders.v = <<>>)
        /\ ((AppRootSet /\ ~Supplied(loadOptions.watchFolders)
                /\ ~Supplied(projectConfig.watchFolders)) =>
             AppRootFolders \subseteq Range(config.watchFolders.v))

C9_Witness ==
    /\ Returned
    /\ env.REACT_NATIVE_APP_ROOT = Str("/repo/app/")
    /\ symlinks = <<"/repo/lib">>
    /\ config.watchFolders.v = <<"/repo/app", "/repo/lib">>

\* C10 as stated: without RCT_METRO_PORT and without a port option the returned
\* server.port is 8081; the variable, when set, is the default-layer port.
C10_PortIs8081 ==
    Returned =>
        /\ ((~Supplied(env.RCT_METRO_PORT) /\ ~Supplied(loadOptions.port)) =>
                config.server.port = Num(8081))
        /\ (Truthy(env.RCT_METRO_PORT) => defaults.server.port = env.RCT_METRO_PORT)

\* C10 amended: the same, provided the project configuration sets no server.port.
C10_PortIs8081UnlessProject ==
    Returned =>
        /\ ((~Supplied(env.RCT_METRO_PORT) /\ ~Supplied(loadOptions.port)
                /\ ~Supplied(projectConfig.port)) =>
                config.server.port = Num(8081))
        /\ (Truthy(env.RCT_METRO_PORT) => defaults.server.port = env.RCT_METRO_PORT)

C10_Witness ==
    /\ Returned
    /\ ~Supplied(env.RCT_METRO_PORT)
    /\ ~Supplied(loadOptions.port)
    /\ ~Supplied(projectConfig.port)
    /\ config.server.port = Num(8081)

====
